---- MODULE Spec2Model ----
(***************************************************************************)
(* DailyTask: the task-list persistence store (storage.py), the display    *)
(* window's task logic (display_ui.py), the editor's publish path          *)
(* (editor_ui.py), the launch path (main.py) and the summarization         *)
(* adapter's validation (model.py).                                        *)
(***************************************************************************)
EXTENDS Integers, Sequences, FiniteSets, TLC

\* ------------------------------------------------------------------------
\* Bounds
\* ------------------------------------------------------------------------
\* longest task list handed to save / held by a window
MaxLen == 2

\* longest task list the display window is constructed over
MaxTasks == 3

\* longest array in an answer of the remote model
MaxItems == 2

\* edits made in the editor, and mutations made in the display, in one
\* behaviour of the application with both windows
MaxEdits == 1
MaxMutations == 1

\* ------------------------------------------------------------------------
\* Values
\* ------------------------------------------------------------------------
\* Day keys (task_date.isoformat()); Today is date.today().isoformat()
Today == "2026-11-01"
Days == {Today, "2026-10-31"}

\* the two candidate directories of the per-day flat files:
\* "current" is get_archive_dir(), "legacy" is <source dir>/archive
Locs == <<"current", "legacy">>
LocSet == {"current", "legacy"}

\* JSON values as json.loads yields them; JAbsent stands for a missing key
\* a text is the sequence of its characters
JStr(s) == [t |-> "str", s |-> s, n |-> 0]
JBool(b) == [t |-> "bool", s |-> <<>>, n |-> IF b THEN 1 ELSE 0]
JInt(n) == [t |-> "int", s |-> <<>>, n |-> n]
JNull == [t |-> "null", s |-> <<>>, n |-> 0]
JAbsent == [t |-> "absent", s |-> <<>>, n |-> 0]
JDict(text, done, pinned, extra) ==
    [t |-> "dict", text |-> text, done |-> done, pinned |-> pinned, extra |-> extra]

\* isinstance(v, str), isinstance(v, bool), isinstance(v, dict)
IsStr(v) == v.t = "str"
IsBool(v) == v.t = "bool"
IsDict(v) == v.t = "dict"

\* Python bool(v) of a JSON scalar
PyBool(v) ==
    CASE v.t = "str" -> v.s # <<>>
      [] v.t = "bool" -> v.n # 0
      [] v.t = "int" -> v.n # 0
      [] OTHER -> FALSE

\* dict.get(key, False): the default replaces a missing key only
GetOrFalse(v) == IF v.t = "absent" THEN JBool(FALSE) ELSE v

\* a task as the windows and the store hold it
TaskRecord(text, done, pinned) == [text |-> text, done |-> done, pinned |-> pinned]

\* str.strip() on a text whose only whitespace character is the blank
RECURSIVE LStrip(_)
LStrip(s) == IF s # <<>> /\ Head(s) = " " THEN LStrip(Tail(s)) ELSE s

RECURSIVE RStrip(_)
RStrip(s) == IF s # <<>> /\ s[Len(s)] = " " THEN RStrip(SubSeq(s, 1, Len(s) - 1)) ELSE s

Strip(s) == RStrip(LStrip(s))

\* all sequences over S of length at most n
RECURSIVE SeqsUpTo(_, _)
SeqsUpTo(S, n) ==
    IF n = 0 THEN {<<>>}
    ELSE LET shorter == SeqsUpTo(S, n - 1)
         IN shorter \cup {Append(q, e) : q \in {p \in shorter : Len(p) = n - 1}, e \in S}

\* ------------------------------------------------------------------------
\* Per-day flat files
\* ------------------------------------------------------------------------
\* what a file location can hold: nothing, a file read_text cannot open,
\* bytes that are not UTF-8, text that is not JSON, JSON that is not an
\* array, or a JSON array
FileMissing == [k |-> "missing", v |-> <<>>]
FileUnreadable == [k |-> "unreadable", v |-> <<>>]
FileBadUtf8 == [k |-> "badutf8", v |-> <<>>]
FileBadJson == [k |-> "badjson", v |-> <<>>]
FileNonArray == [k |-> "nonarray", v |-> <<>>]
FileArray(items) == [k |-> "array", v |-> items]

\* items found in the arrays of the files an older version left behind
ItemA == JDict(JStr(<<"a">>), JAbsent, JInt(1), FALSE)
ItemB == JDict(JStr(<<"b">>), JBool(TRUE), JBool(FALSE), FALSE)
ItemNoText == JDict(JInt(5), JBool(TRUE), JBool(FALSE), FALSE)
ItemScalar == JInt(7)

LegacyContents ==
    {FileMissing, FileUnreadable, FileBadUtf8, FileBadJson, FileNonArray,
     FileArray(<<>>), FileArray(<<ItemNoText>>), FileArray(<<ItemA>>),
     FileArray(<<ItemScalar, ItemB, ItemA>>)}

\* the days for which an older version left files behind
LegacyDays == {Today}

\* ------------------------------------------------------------------------
\* State
\* ------------------------------------------------------------------------
VARIABLES
    rows,          \* the tasks table: a set of rows (task_date, position, text, done, pinned)
    files,         \* files[loc][day]: the flat file <loc>/<day>.json
    call,          \* the last call made on the store and how it ended
    tasks,         \* DisplayWindow.tasks
    list_rows,     \* DisplayWindow.list_tasks: the UserRole index of each row
    lbl_current,   \* DisplayWindow.lbl_current: what the collapsed row shows
    btn_complete,  \* DisplayWindow.btn_complete_current.isEnabled()
    editor_items,  \* EditorWindow.list_tasks: text and UserRole meta of each row
    display_open,  \* AppController.display_open
    editor_open,   \* AppController.editor_open
    quit_called,   \* AppController.app.quit() has been called
    event,         \* the last handler that set a task list (or launch), and its outcome
    response,      \* the last outcome of the remote call
    used,          \* the editor edits and display mutations made so far
    api_keys,      \* the api_keys table: its one row (id = 1), or none
    key_file,      \* the legacy file apikey.json
    cred,          \* the last call made on the credential slot and how it ended
    display_visible,  \* DisplayWindow.isVisible()
    editor_visible,   \* EditorWindow.isVisible()
    _topmost       \* DisplayWindow._topmost

storeVars == <<rows, files, call>>
credVars == <<api_keys, key_file, cred>>
displayVars == <<tasks, list_rows, lbl_current, btn_complete>>
ctlVars == <<display_open, editor_open, quit_called>>
winVars == <<display_visible, editor_visible, _topmost>>
uiVars == <<tasks, list_rows, lbl_current, btn_complete, editor_items,
            display_open, editor_open, quit_called, event, response, used,
            display_visible, editor_visible, _topmost>>
vars == <<rows, files, call, tasks, list_rows, lbl_current, btn_complete,
          editor_items, display_open, editor_open, quit_called, event, response,
          used, api_keys, key_file, cred, display_visible, editor_visible, _topmost>>

NoCall ==
    [op |-> "none", day |-> "", arg |-> <<>>, val |-> <<>>, raised |-> FALSE,
     parsed |-> FALSE, deleted |-> 0, seq |-> 0]

\* Optional[int] None
NoIndex == -1

\* ------------------------------------------------------------------------
\* storage.py
\* ------------------------------------------------------------------------
\* int(bool(x)) on the way in, bool(column) on the way out
IntOfBool(b) == IF b THEN 1 ELSE 0
BoolOfInt(n) == n # 0

\* a save that merges into the stored entry instead of deleting it first
DeleteDay_Merge(rs, day) == rs

\* DELETE FROM tasks WHERE task_date = ?
DeleteDay(rs, day) == {r \in rs : r.task_date # day}

\* INSERT ... VALUES (iso, idx, text, int(bool(done)), int(bool(pinned)))
\* for idx, t in enumerate(items)
InsertRows(day, items) ==
    {[task_date |-> day, position |-> i - 1, text |-> items[i].text,
      done |-> IntOfBool(items[i].done), pinned |-> IntOfBool(items[i].pinned)]
        : i \in 1..Len(items)}

\* the table after save_tasks_for_date(day, items)
SavedRows(rs, day, items) == DeleteDay(rs, day) \cup InsertRows(day, items)

\* SELECT text, done, pinned FROM tasks WHERE task_date = ? ORDER BY position ASC
RECURSIVE OrderByPosition(_)
OrderByPosition(S) ==
    IF S = {} THEN <<>>
    ELSE LET m == CHOOSE r \in S : \A q \in S : r.position <= q.position
         IN <<m>> \o OrderByPosition(S \ {m})

SelectRows(rs, day) == OrderByPosition({r \in rs : r.task_date = day})

\* [TaskRecord(r["text"], bool(r["done"]), bool(r["pinned"])) for r in rows]
RowsToTasks(rws) ==
    [i \in 1..Len(rws) |->
        TaskRecord(rws[i].text, BoolOfInt(rws[i].done), BoolOfInt(rws[i].pinned))]

\* the loop of _read_tasks_from_json over the items of the array
RECURSIVE ReadItems(_)
ReadItems(items) ==
    IF items = <<>> THEN <<>>
    ELSE LET item == Head(items)
             rest == ReadItems(Tail(items))
         IN IF ~IsDict(item) THEN rest
            ELSE IF IsStr(item.text)
                 THEN <<TaskRecord(item.text.s, PyBool(GetOrFalse(item.done)),
                                   PyBool(GetOrFalse(item.pinned)))>> \o rest
                 ELSE rest

\* _read_tasks_from_json(path): only OSError and json.JSONDecodeError are
\* caught; the UnicodeDecodeError of read_text(encoding="utf-8") is neither
_read_tasks_from_json(content) ==
    CASE content.k = "missing" -> [raised |-> FALSE, parsed |-> FALSE, val |-> <<>>]
      [] content.k = "unreadable" -> [raised |-> FALSE, parsed |-> FALSE, val |-> <<>>]
      [] content.k = "badutf8" -> [raised |-> TRUE, parsed |-> FALSE, val |-> <<>>]
      [] content.k = "badjson" -> [raised |-> FALSE, parsed |-> FALSE, val |-> <<>>]
      [] content.k = "nonarray" -> [raised |-> FALSE, parsed |-> FALSE, val |-> <<>>]
      [] OTHER -> [raised |-> FALSE, parsed |-> TRUE, val |-> ReadItems(content.v)]

\* _migrate_tasks_from_json(task_date): the first candidate whose list is
\* non-empty wins; an exception of a read leaves the loop
RECURSIVE MigrateFrom(_, _, _)
MigrateFrom(fs, day, i) ==
    IF i > Len(Locs) THEN [raised |-> FALSE, parsed |-> FALSE, val |-> <<>>]
    ELSE LET r == _read_tasks_from_json(fs[Locs[i]][day])
         IN IF r.raised THEN r
            ELSE IF r.val # <<>> THEN r
            ELSE LET later == MigrateFrom(fs, day, i + 1)
                 IN [later EXCEPT !.parsed = r.parsed \/ later.parsed]

_migrate_tasks_from_json(fs, day) == MigrateFrom(fs, day, 1)

\* load_tasks_for_date(task_date): the list returned (or the exception),
\* and the table it leaves
LoadResult(rs, fs, task_date) ==
    LET rws == SelectRows(rs, task_date)
        migrated == _migrate_tasks_from_json(fs, task_date)
    IN IF rws # <<>>
       THEN [val |-> RowsToTasks(rws), raised |-> FALSE, parsed |-> FALSE, rows |-> rs]
       ELSE IF migrated.raised
       THEN [val |-> <<>>, raised |-> TRUE, parsed |-> migrated.parsed, rows |-> rs]
       ELSE IF migrated.val # <<>>
       THEN [val |-> migrated.val, raised |-> FALSE, parsed |-> migrated.parsed,
             rows |-> SavedRows(rs, task_date, migrated.val)]
       ELSE [val |-> <<>>, raised |-> FALSE, parsed |-> migrated.parsed, rows |-> rs]

\* save_tasks_for_date(task_date, tasks)
save_tasks_for_date(task_date, items) ==
    /\ rows' = SavedRows(rows, task_date, items)
    /\ call' = [op |-> "save", day |-> task_date, arg |-> items, val |-> <<>>,
                raised |-> FALSE, parsed |-> FALSE,
                deleted |-> Cardinality({r \in rows : r.task_date = task_date}),
                seq |-> 1 - call.seq]
    /\ UNCHANGED <<files, credVars, uiVars>>

\* load_tasks_for_date(task_date)
load_tasks_for_date(task_date) ==
    LET res == LoadResult(rows, files, task_date)
    IN /\ rows' = res.rows
       /\ call' = [op |-> "load", day |-> task_date, arg |-> <<>>, val |-> res.val,
                   raised |-> res.raised, parsed |-> res.parsed, deleted |-> 0,
                   seq |-> 1 - call.seq]
       /\ UNCHANGED <<files, credVars, uiVars>>

\* the flat files are left by an older version, or changed by the user,
\* outside the store
LegacyFileChange(loc, day, content) ==
    /\ files[loc][day] # content
    /\ files' = [files EXCEPT ![loc][day] = content]
    /\ UNCHANGED <<rows, call, credVars, uiVars>>

\* the lists the callers of save pass
SaveTasks == {TaskRecord(<<"a">>, FALSE, TRUE), TaskRecord(<<"b">>, TRUE, FALSE)}
SaveLists(day) == IF day = Today THEN SeqsUpTo(SaveTasks, MaxLen) ELSE SeqsUpTo(SaveTasks, 1)

\* ------------------------------------------------------------------------
\* storage.py: the credential slot
\* ------------------------------------------------------------------------
\* Optional[str]: None, or a text
NoKey == [some |-> FALSE, s |-> <<>>]
SomeKey(s) == [some |-> TRUE, s |-> s]

\* what apikey.json can hold: no file, a file that cannot be read, bytes that
\* are not UTF-8, text that is not JSON, JSON that is not an object, and an
\* object whose "api_key" entry is v (JAbsent when it has none)
KeyFileMissing == [k |-> "missing", v |-> JAbsent]
KeyFileUnreadable == [k |-> "unreadable", v |-> JAbsent]
KeyFileBadUtf8 == [k |-> "badutf8", v |-> JAbsent]
KeyFileBadJson == [k |-> "badjson", v |-> JAbsent]
KeyFileNonObject == [k |-> "nonobject", v |-> JAbsent]
KeyFileObject(v) == [k |-> "object", v |-> v]

KeyFileContents ==
    {KeyFileMissing, KeyFileUnreadable, KeyFileBadUtf8, KeyFileBadJson, KeyFileNonObject,
     KeyFileObject(JStr(<<"f", " ">>)), KeyFileObject(JStr(<<" ">>)),
     KeyFileObject(JInt(5)), KeyFileObject(JAbsent)}

\* _load_api_key_from_json(): the key of the file stripped, None, or the
\* UnicodeDecodeError of read_text, which neither except clause catches
_load_api_key_from_json(file) ==
    CASE file.k = "badutf8" -> [raised |-> TRUE, val |-> NoKey]
      [] file.k = "object" /\ IsStr(file.v) /\ Strip(file.v.s) # <<>> ->
            [raised |-> FALSE, val |-> SomeKey(Strip(file.v.s))]
      [] OTHER -> [raised |-> FALSE, val |-> NoKey]

\* an insert that leaves an existing row as it is
UpsertKey_KeepExisting(row, api_key) == IF row.some THEN row ELSE SomeKey(api_key)

\* INSERT ... ON CONFLICT(id) DO UPDATE SET api_key = excluded.api_key
UpsertKey(row, api_key) == SomeKey(api_key)

\* load_api_key(): the value returned (or the exception), and the row after
LoadKey(row, file) ==
    LET legacy == _load_api_key_from_json(file)
    IN IF row.some /\ Strip(row.s) # <<>>
       THEN [raised |-> FALSE, val |-> SomeKey(Strip(row.s)), row |-> row]
       ELSE IF legacy.raised
       THEN [raised |-> TRUE, val |-> NoKey, row |-> row]
       ELSE IF legacy.val.some
       THEN [raised |-> FALSE, val |-> legacy.val, row |-> UpsertKey(row, legacy.val.s)]
       ELSE [raised |-> FALSE, val |-> NoKey, row |-> row]

\* the record of a call on the slot: what was passed and returned, the call
\* before it, and whether the slot and the file were both empty at the call
NoCred ==
    [op |-> "none", arg |-> <<>>, val |-> NoKey, raised |-> FALSE,
     prev_op |-> "none", prev_arg |-> <<>>, empty |-> FALSE]

CredAfter(c, op, arg, val, raised, empty) ==
    [op |-> op, arg |-> arg, val |-> val, raised |-> raised,
     prev_op |-> c.op, prev_arg |-> c.arg, empty |-> empty]

CredAfterLoad(c, row, file) ==
    CredAfter(c, "load", <<>>, LoadKey(row, file).val, LoadKey(row, file).raised,
              ~row.some /\ file = KeyFileMissing)

CredAfterSave(c, api_key) == CredAfter(c, "save", api_key, NoKey, FALSE, FALSE)

\* save_api_key(api_key)
save_api_key(api_key) ==
    /\ api_keys' = UpsertKey(api_keys, api_key)
    /\ cred' = CredAfterSave(cred, api_key)
    /\ UNCHANGED <<key_file, storeVars, uiVars>>

\* load_api_key()
load_api_key ==
    /\ api_keys' = LoadKey(api_keys, key_file).row
    /\ cred' = CredAfterLoad(cred, api_keys, key_file)
    /\ UNCHANGED <<key_file, storeVars, uiVars>>

\* apikey.json is left by an older version, or changed by the user
KeyFileChange(content) ==
    /\ key_file # content
    /\ key_file' = content
    /\ UNCHANGED <<api_keys, cred, storeVars, uiVars>>

\* ------------------------------------------------------------------------
\* display_ui.py
\* ------------------------------------------------------------------------
\* a first loop that takes a pinned task whether it is done or not
RECURSIVE FirstPinnedOpen_AnyPinned(_, _)
FirstPinnedOpen_AnyPinned(ts, i) ==
    IF i >= Len(ts) THEN NoIndex
    ELSE IF ts[i + 1].pinned THEN i
    ELSE FirstPinnedOpen_AnyPinned(ts, i + 1)

\* for i, t in enumerate(self.tasks): if t.pinned and not t.done: return i
\* (the scan from index i on; NoIndex when the loop ends)
RECURSIVE FirstPinnedOpen(_, _)
FirstPinnedOpen(ts, i) ==
    IF i >= Len(ts) THEN NoIndex
    ELSE IF ts[i + 1].pinned /\ ~ts[i + 1].done THEN i
    ELSE FirstPinnedOpen(ts, i + 1)

\* a second loop that returns the first task whether it is done or not
FirstOpen_IgnoreDone(ts, i) ==
    IF i >= Len(ts) THEN NoIndex ELSE i

\* for i, t in enumerate(self.tasks): if not t.done: return i
RECURSIVE FirstOpen(_, _)
FirstOpen(ts, i) ==
    IF i >= Len(ts) THEN NoIndex
    ELSE IF ~ts[i + 1].done THEN i
    ELSE FirstOpen(ts, i + 1)

\* DisplayWindow._current_task_index
_current_task_index(ts) ==
    LET p == FirstPinnedOpen(ts, 0)
    IN IF p # NoIndex THEN p ELSE FirstOpen(ts, 0)

\* enumerate(self.tasks): the indices 0..n-1 in order
Indices(ts) == [i \in 1..Len(ts) |-> i - 1]

\* a display order that puts the pinned tasks last
_sorted_indices_for_display_PinnedLast(ts) ==
    SelectSeq(Indices(ts), LAMBDA i : ~ts[i + 1].pinned)
        \o SelectSeq(Indices(ts), LAMBDA i : ts[i + 1].pinned)

\* DisplayWindow._sorted_indices_for_display
_sorted_indices_for_display(ts) ==
    SelectSeq(Indices(ts), LAMBDA i : ts[i + 1].pinned)
        \o SelectSeq(Indices(ts), LAMBDA i : ~ts[i + 1].pinned)

\* the label of the collapsed row when no task is left
AllDoneText == <<"#">>

\* DisplayWindow._refresh_collapsed_row: the label and the button
_refresh_collapsed_row(ts) ==
    LET idx == _current_task_index(ts)
    IN IF idx = NoIndex
       THEN [lbl |-> [pin |-> FALSE, text |-> AllDoneText], btn |-> FALSE]
       ELSE [lbl |-> [pin |-> ts[idx + 1].pinned, text |-> ts[idx + 1].text],
             btn |-> TRUE]

\* DisplayWindow._refresh_task_list: the rows are rebuilt in display order,
\* each carrying its index into self.tasks; self.tasks is only read
_refresh_task_list(ts) ==
    [tasks |-> ts, list_rows |-> _sorted_indices_for_display(ts)]

\* DisplayWindow._refresh_all, run on the list ts a handler has just set
_refresh_all(ts) ==
    /\ tasks' = _refresh_task_list(ts).tasks
    /\ list_rows' = _refresh_task_list(ts).list_rows
    /\ lbl_current' = _refresh_collapsed_row(ts).lbl
    /\ btn_complete' = _refresh_collapsed_row(ts).btn

\* [{"text": t.text, "done": t.done, "pinned": t.pinned} for t in tasks]
Payload(ts) ==
    [i \in 1..Len(ts) |->
        JDict(JStr(ts[i].text), JBool(ts[i].done), JBool(ts[i].pinned), FALSE)]

\* DisplayWindow._archive_tasks: <source dir>/archive/<today>.json
DisplayArchive(ts) ==
    files' = [files EXCEPT !["legacy"][Today] = FileArray(Payload(ts))]

\* a window's handlers run while the window is shown and the application runs
DisplayShown == display_visible /\ ~quit_called
EditorShown == editor_visible /\ ~quit_called

\* a completion that marks the first task of the list, not the current one
Completed_FirstTask(ts, idx) == [ts EXCEPT ![1].done = TRUE]

\* self.tasks[idx].done = True
Completed(ts, idx) == [ts EXCEPT ![idx + 1].done = TRUE]

\* DisplayWindow._complete_current_task
_complete_current_task ==
    LET idx == _current_task_index(tasks)
        mutated == Completed(tasks, idx)
    IN /\ DisplayShown
       /\ IF idx = NoIndex
          THEN /\ event' = [op |-> "complete", idx |-> NoIndex, list |-> tasks,
                            raised |-> FALSE]
               /\ UNCHANGED <<files, displayVars>>
          ELSE /\ DisplayArchive(mutated)
               /\ _refresh_all(mutated)
               /\ event' = [op |-> "complete", idx |-> idx, list |-> mutated,
                            raised |-> FALSE]
       /\ UNCHANGED <<rows, call, credVars, editor_items, ctlVars, winVars, response>>

\* DisplayWindow._toggle_done(idx), idx the UserRole of the row clicked
DisplayToggleDone(idx) ==
    LET mutated == [tasks EXCEPT ![idx + 1].done = ~tasks[idx + 1].done]
    IN /\ DisplayShown
       /\ DisplayArchive(mutated)
       /\ _refresh_all(mutated)
       /\ event' = [op |-> "toggle_done", idx |-> idx, list |-> mutated, raised |-> FALSE]
       /\ UNCHANGED <<rows, call, credVars, editor_items, ctlVars, winVars, response>>

\* a pin that takes the pin off every other task
TogglePinned_Exclusive(ts, idx) ==
    [i \in 1..Len(ts) |->
        IF i = idx + 1 THEN [ts[i] EXCEPT !.pinned = ~ts[i].pinned]
        ELSE [ts[i] EXCEPT !.pinned = ts[idx + 1].pinned /\ ts[i].pinned]]

\* self.tasks[idx].pinned = not self.tasks[idx].pinned
TogglePinned(ts, idx) == [ts EXCEPT ![idx + 1].pinned = ~ts[idx + 1].pinned]

\* DisplayWindow._toggle_pin(idx)
DisplayTogglePin(idx) ==
    LET mutated == TogglePinned(tasks, idx)
    IN /\ DisplayShown
       /\ DisplayArchive(mutated)
       /\ _refresh_all(mutated)
       /\ event' = [op |-> "toggle_pin", idx |-> idx, list |-> mutated, raised |-> FALSE]
       /\ UNCHANGED <<rows, call, credVars, editor_items, ctlVars, winVars, response>>

\* QListWidget InternalMove: the row at position from is dropped at position to
RemoveAt(s, i) == SubSeq(s, 1, i - 1) \o SubSeq(s, i + 1, Len(s))
InsertAt(s, i, e) == SubSeq(s, 1, i - 1) \o <<e>> \o SubSeq(s, i, Len(s))
MoveRow(s, from, to) == InsertAt(RemoveAt(s, from), to, s[from])

\* a reorder that takes the number of the row for the index of the task
Reordered_ByRowNumber(ts, new_order) == [r \in 1..Len(new_order) |-> ts[r]]

\* self.tasks = [self.tasks[i] for i in new_order]
Reordered(ts, new_order) == [r \in 1..Len(new_order) |-> ts[new_order[r] + 1]]

\* rowsMoved -> DisplayWindow._sync_order_from_list, after the drag of a row
_sync_order_from_list(from, to) ==
    LET new_order == MoveRow(list_rows, from, to)
        mutated == Reordered(tasks, new_order)
    IN /\ DisplayShown
       /\ from # to
       /\ DisplayArchive(mutated)
       /\ _refresh_all(mutated)
       /\ event' = [op |-> "reorder", idx |-> NoIndex, list |-> mutated, raised |-> FALSE]
       /\ UNCHANGED <<rows, call, credVars, editor_items, ctlVars, winVars, response>>

\* an apply_tasks that keeps the done flag of the task it replaces
apply_tasks_KeepDone(new_tasks) ==
    _refresh_all([i \in 1..Len(new_tasks) |->
        TaskRecord(new_tasks[i].text,
                   IF i <= Len(tasks) THEN tasks[i].done ELSE new_tasks[i].done,
                   new_tasks[i].pinned)])

\* DisplayWindow.apply_tasks: a copy of each task, then _refresh_all
apply_tasks(new_tasks) ==
    _refresh_all([i \in 1..Len(new_tasks) |->
        TaskRecord(new_tasks[i].text, new_tasks[i].done, new_tasks[i].pinned)])

\* ------------------------------------------------------------------------
\* model.py
\* ------------------------------------------------------------------------
\* The text of an answer is a sequence of tokens: a word of prose, "[", "]",
\* the "{" of an object with its one key, "}", and the JSON atoms: a scalar,
\* or an object with the fields of a task (its text begins with "{" and ends
\* with "}"; no other token holds a bracket or a brace).  Separators are left
\* out: two atoms in a row inside "[" "]" are two elements, and outside they
\* are not one JSON value.
Word == [t |-> "word"]
LBracket == [t |-> "["]
RBracket == [t |-> "]"]
LBrace(key) == [t |-> "{", key |-> key]
RBrace == [t |-> "}"]

IsAtom(tok) == tok.t \in {"dict", "str", "bool", "int", "null"}

\* the text is "[" atoms "]"
IsArrayText(toks) ==
    /\ Len(toks) >= 2
    /\ toks[1].t = "["
    /\ toks[Len(toks)].t = "]"
    /\ \A i \in 2..(Len(toks) - 1) : IsAtom(toks[i])

\* what json.loads returns: a list, a dict with the fields of a task, a dict
\* with one other key (its value a list or not), or a scalar
LoadedArray(items) == [k |-> "array", key |-> "", v |-> items, list |-> TRUE]
LoadedObject(item) == [k |-> "object", key |-> "", v |-> <<item>>, list |-> FALSE]
LoadedWrapper(key, v, list) == [k |-> "wrapper", key |-> key, v |-> v, list |-> list]
LoadedScalar == [k |-> "scalar", key |-> "", v |-> <<>>, list |-> FALSE]

\* json.loads(text): the value, or JSONDecodeError
JsonLoads(toks) ==
    LET n == Len(toks)
        inner == SubSeq(toks, 2, n - 1)
    IN IF n = 1 /\ toks[1].t = "dict"
       THEN [raised |-> FALSE, data |-> LoadedObject(toks[1])]
       ELSE IF n = 1 /\ IsAtom(toks[1])
       THEN [raised |-> FALSE, data |-> LoadedScalar]
       ELSE IF IsArrayText(toks)
       THEN [raised |-> FALSE, data |-> LoadedArray(inner)]
       ELSE IF n >= 3 /\ toks[1].t = "{" /\ toks[n].t = "}" /\ IsArrayText(inner)
       THEN [raised |-> FALSE,
             data |-> LoadedWrapper(toks[1].key, SubSeq(inner, 2, Len(inner) - 1), TRUE)]
       ELSE IF n = 3 /\ toks[1].t = "{" /\ toks[n].t = "}" /\ IsAtom(inner[1])
       THEN [raised |-> FALSE, data |-> LoadedWrapper(toks[1].key, inner, FALSE)]
       ELSE [raised |-> TRUE, data |-> LoadedScalar]

\* the tokens that hold the character c
Holds(tok, c) ==
    CASE c = "[" -> tok.t = "["
      [] c = "]" -> tok.t = "]"
      [] c = "{" -> tok.t \in {"{", "dict"}
      [] c = "}" -> tok.t \in {"}", "dict"}

\* raw.find(c) and raw.rfind(c), 0 when c does not occur
Find(raw, c) ==
    LET at == {i \in 1..Len(raw) : Holds(raw[i], c)}
    IN IF at = {} THEN 0 ELSE CHOOSE i \in at : \A j \in at : i <= j

RFind(raw, c) ==
    LET at == {i \in 1..Len(raw) : Holds(raw[i], c)}
    IN IF at = {} THEN 0 ELSE CHOOSE i \in at : \A j \in at : i >= j

\* one round of the loop of _extract_json_payload: raw[start : end + 1] when
\* both characters occur, end > start, and the slice parses.  The two
\* characters of one object token are its first and its last.
Candidate(raw, open_char, close_char) ==
    LET start == Find(raw, open_char)
        end == RFind(raw, close_char)
        slice == SubSeq(raw, start, end)
    IN IF start # 0 /\ end # 0 /\ end >= start /\ ~JsonLoads(slice).raised
       THEN [found |-> TRUE, text |-> slice]
       ELSE [found |-> FALSE, text |-> <<>>]

\* an extraction that keeps the payload only when the whole answer is JSON
_extract_json_payload_NoScan(raw) == raw

\* _extract_json_payload(raw)
_extract_json_payload(raw) ==
    IF ~JsonLoads(raw).raised THEN raw
    ELSE IF Candidate(raw, "[", "]").found THEN Candidate(raw, "[", "]").text
    ELSE IF Candidate(raw, "{", "}").found THEN Candidate(raw, "{", "}").text
    ELSE raw

\* json.loads(_extract_json_payload(raw)): the parsed value, or JSONDecodeError
ExtractAndLoad(raw) == JsonLoads(_extract_json_payload(raw))

\* what the remote call yields: the content of the answer, or an exception
\* of the client
Answer(raw) == [k |-> "content", raw |-> raw]

\* the texts the remote model writes: a JSON value, alone or (prose) between
\* two words of prose, or words only
Around(text, prose) == IF prose THEN <<Word>> \o text \o <<Word>> ELSE text
RespArray(items, prose) == Answer(Around(<<LBracket>> \o items \o <<RBracket>>, prose))
RespObject(item, prose) == Answer(Around(<<item>>, prose))
RespWrapper(key, items, prose) ==
    Answer(Around(<<LBrace(key), LBracket>> \o items \o <<RBracket, RBrace>>, prose))
RespScalar(prose) == Answer(Around(<<JInt(7)>>, prose))
RespNoJson == Answer(<<Word>>)

\* set(item.keys()) == {"text", "done", "pinned"}
HasTaskKeys(item) ==
    /\ item.text.t # "absent"
    /\ item.done.t # "absent"
    /\ item.pinned.t # "absent"
    /\ ~item.extra

\* the keys under which _normalize_tasks_data looks for a list
WrapperKeys == {"tasks", "items", "data", "list"}

\* a normalization that takes a list and nothing else
_normalize_tasks_data_ListsOnly(data) ==
    IF data.k = "array" THEN [raised |-> FALSE, val |-> data.v]
    ELSE [raised |-> TRUE, val |-> <<>>]

\* _normalize_tasks_data(data): the list to validate, or ValueError
_normalize_tasks_data(data) ==
    CASE data.k = "array" -> [raised |-> FALSE, val |-> data.v]
      [] data.k = "object" ->
            IF HasTaskKeys(data.v[1]) THEN [raised |-> FALSE, val |-> data.v]
            ELSE [raised |-> TRUE, val |-> <<>>]
      [] data.k = "wrapper" ->
            IF data.key \in WrapperKeys /\ data.list
            THEN [raised |-> FALSE, val |-> data.v]
            ELSE [raised |-> TRUE, val |-> <<>>]
      [] OTHER -> [raised |-> TRUE, val |-> <<>>]

\* a validation that counts pinned entries but never rejects on the count
PinnedLimitExceeded_Never(pinned_count) == FALSE

\* if pinned_count > 1: raise ValueError
PinnedLimitExceeded(pinned_count) == pinned_count > 1

\* a loop that leaves a bad item out and goes on with the rest
RECURSIVE ValidateItems_SkipBad(_, _, _)
ValidateItems_SkipBad(items, out, pinned_count) ==
    IF items = <<>>
    THEN IF PinnedLimitExceeded(pinned_count)
         THEN [raised |-> TRUE, val |-> <<>>]
         ELSE [raised |-> FALSE, val |-> out]
    ELSE LET item == Head(items)
         IN IF \/ ~IsDict(item)
               \/ ~HasTaskKeys(item)
               \/ ~IsStr(item.text)
               \/ ~IsBool(item.done) \/ ~IsBool(item.pinned)
            THEN ValidateItems_SkipBad(Tail(items), out, pinned_count)
            ELSE ValidateItems_SkipBad(Tail(items),
                               Append(out, TaskRecord(Strip(item.text.s),
                                                      PyBool(item.done), PyBool(item.pinned))),
                               IF PyBool(item.pinned) THEN pinned_count + 1
                               ELSE pinned_count)

\* the loop of _parse_tasks over the items: the first bad item raises
RECURSIVE ValidateItems(_, _, _)
ValidateItems(items, out, pinned_count) ==
    IF items = <<>>
    THEN IF PinnedLimitExceeded(pinned_count)
         THEN [raised |-> TRUE, val |-> <<>>]
         ELSE [raised |-> FALSE, val |-> out]
    ELSE LET item == Head(items)
         IN IF ~IsDict(item) THEN [raised |-> TRUE, val |-> <<>>]
            ELSE IF ~HasTaskKeys(item) THEN [raised |-> TRUE, val |-> <<>>]
            ELSE IF ~IsStr(item.text) THEN [raised |-> TRUE, val |-> <<>>]
            ELSE IF ~IsBool(item.done) \/ ~IsBool(item.pinned)
                 THEN [raised |-> TRUE, val |-> <<>>]
            ELSE ValidateItems(Tail(items),
                               Append(out, TaskRecord(Strip(item.text.s),
                                                      PyBool(item.done), PyBool(item.pinned))),
                               IF PyBool(item.pinned) THEN pinned_count + 1
                               ELSE pinned_count)

\* _parse_tasks(raw_json): the payloads, or ValueError
_parse_tasks(raw) ==
    LET loaded == ExtractAndLoad(raw)
        data == _normalize_tasks_data(loaded.data)
    IN IF loaded.raised THEN [raised |-> TRUE, val |-> <<>>]
       ELSE IF data.raised THEN [raised |-> TRUE, val |-> <<>>]
       ELSE ValidateItems(data.val, <<>>, 0)

\* the outcome of the remote call: an exception of the client, or a response
TransportFault == [k |-> "fault", raw |-> <<>>]

\* summarize_tasks(user_input, api_key)
summarize_tasks(answer) ==
    IF answer = TransportFault THEN [raised |-> TRUE, val |-> <<>>]
    ELSE _parse_tasks(answer.raw)

\* ------------------------------------------------------------------------
\* editor_ui.py
\* ------------------------------------------------------------------------
\* the text _add_task gives a new item
NewTaskText == <<"n">>

\* EditorWindow._load_tasks: one row per task
_load_tasks(ts) ==
    [i \in 1..Len(ts) |-> TaskRecord(ts[i].text, ts[i].done, ts[i].pinned)]

\* EditorWindow._collect_tasks: the text of each row stripped, its meta as it is
_collect_tasks(items) ==
    [i \in 1..Len(items) |->
        TaskRecord(Strip(items[i].text), items[i].done, items[i].pinned)]

\* EditorWindow._add_task
_add_task ==
    /\ EditorShown
    /\ Len(editor_items) < MaxLen
    /\ editor_items' = Append(editor_items, TaskRecord(NewTaskText, FALSE, FALSE))
    /\ UNCHANGED <<storeVars, credVars, displayVars, ctlVars, winVars, event, response>>

\* the user types a text into the row (the items are editable)
EditItemText(row, text) ==
    /\ EditorShown
    /\ editor_items[row].text # text
    /\ editor_items' = [editor_items EXCEPT ![row].text = text]
    /\ UNCHANGED <<storeVars, credVars, displayVars, ctlVars, winVars, event, response>>

\* EditorWindow._delete_selected, row the selected row
_delete_selected(row) ==
    /\ EditorShown
    /\ editor_items' = RemoveAt(editor_items, row)
    /\ UNCHANGED <<storeVars, credVars, displayVars, ctlVars, winVars, event, response>>

\* EditorWindow._toggle_done(item)
EditorToggleDone(row) ==
    /\ EditorShown
    /\ editor_items' = [editor_items EXCEPT ![row].done = ~editor_items[row].done]
    /\ UNCHANGED <<storeVars, credVars, displayVars, ctlVars, winVars, event, response>>

\* EditorWindow._toggle_pin(item)
EditorTogglePin(row) ==
    /\ EditorShown
    /\ editor_items' = [editor_items EXCEPT ![row].pinned = ~editor_items[row].pinned]
    /\ UNCHANGED <<storeVars, credVars, displayVars, ctlVars, winVars, event, response>>

\* EditorWindow._archive_tasks: get_archive_dir()/<today>.json
EditorArchive(ts) ==
    files' = [files EXCEPT !["current"][Today] = FileArray(Payload(ts))]

\* AppController.open_display: the display is shown when it is hidden
open_display ==
    /\ display_visible' = TRUE
    /\ display_open' = IF ~display_visible THEN TRUE ELSE display_open

\* EditorWindow._publish, with AppController.publish_to_display as callback
_publish ==
    LET collected == _collect_tasks(editor_items)
    IN /\ EditorShown
       /\ collected # <<>>
       /\ open_display
       /\ apply_tasks(collected)
       /\ EditorArchive(collected)
       /\ event' = [op |-> "publish", idx |-> NoIndex, list |-> collected, raised |-> FALSE]
       /\ UNCHANGED <<rows, call, credVars, editor_items, editor_open, quit_called, response, used,
                    editor_visible, _topmost>>

\* a handler that clears the list before it knows the outcome
ItemsAfterSummarize_ClearedFirst(items, res) ==
    IF res.raised THEN <<>> ELSE _load_tasks(res.val)

\* the rows of the editor after the try block: _load_tasks runs only when
\* summarize_tasks has returned
ItemsAfterSummarize(items, res) ==
    IF res.raised THEN items ELSE _load_tasks(res.val)

\* EditorWindow._on_ai_summarize: raw_input the text of the input box,
\* answer the outcome of the remote call.  load_api_key() runs outside the
\* try block; every exception of summarize_tasks is caught and shown.
_on_ai_summarize(raw_input, answer) ==
    LET key == LoadKey(api_keys, key_file)
        res == summarize_tasks(answer)
    IN /\ EditorShown
       /\ IF Strip(raw_input) = <<>>
          THEN UNCHANGED <<credVars, editor_items, event, response>>
          ELSE /\ api_keys' = key.row
               /\ cred' = CredAfterLoad(cred, api_keys, key_file)
               /\ UNCHANGED key_file
               /\ IF key.raised \/ ~key.val.some
                  THEN UNCHANGED <<editor_items, event, response>>
                  ELSE /\ response' = answer
                       /\ event' = [op |-> "summarize", idx |-> NoIndex,
                                    list |-> res.val, raised |-> res.raised]
                       /\ editor_items' = ItemsAfterSummarize(editor_items, res)
       /\ UNCHANGED <<storeVars, displayVars, ctlVars, winVars, used>>

\* EditorWindow._on_set_api_key: input what the dialog returns, None when it
\* is cancelled
_on_set_api_key(input) ==
    LET current == LoadKey(api_keys, key_file)
        loaded == CredAfterLoad(cred, api_keys, key_file)
        key == Strip(input.s)
    IN /\ EditorShown
       /\ IF current.raised \/ ~input.some \/ key = <<>>
          THEN /\ api_keys' = current.row
               /\ cred' = loaded
          ELSE /\ api_keys' = UpsertKey(current.row, key)
               /\ cred' = CredAfterSave(loaded, key)
       /\ UNCHANGED <<key_file, storeVars, uiVars>>

\* ------------------------------------------------------------------------
\* main.py
\* ------------------------------------------------------------------------
\* the task the display shows when nothing is stored for today
PlaceholderTask == TaskRecord(<<"t">>, FALSE, TRUE)

\* _load_today_tasks(): get_archive_dir()/<today>.json; JSONDecodeError and
\* OSError are caught, the UnicodeDecodeError of read_text is not
_load_today_tasks(fs) ==
    LET file == fs["current"][Today]
    IN CASE file.k = "badutf8" -> [raised |-> TRUE, val |-> <<>>]
         [] file.k = "array" -> [raised |-> FALSE, val |-> ReadItems(file.v)]
         [] OTHER -> [raised |-> FALSE, val |-> <<>>]

\* _load_today_tasks() or [Task(placeholder, done=False, pinned=True)]
InitialTasks(loaded) == IF loaded # <<>> THEN loaded ELSE <<PlaceholderTask>>

\* AppController.__init__ of the next run, after the quit of this one
Launch ==
    LET r == _load_today_tasks(files)
        initial == InitialTasks(r.val)
    IN /\ quit_called
       /\ IF r.raised
          THEN /\ event' = [op |-> "launch", idx |-> NoIndex, list |-> <<>>, raised |-> TRUE]
               /\ UNCHANGED <<displayVars, editor_items, ctlVars, winVars>>
          ELSE /\ _refresh_all(initial)
               /\ editor_items' = _load_tasks(initial)
               /\ display_open' = TRUE
               /\ editor_open' = FALSE
               /\ quit_called' = FALSE
               /\ display_visible' = TRUE
               /\ editor_visible' = FALSE
               /\ _topmost' = TRUE
               /\ event' = [op |-> "launch", idx |-> NoIndex, list |-> r.val,
                            raised |-> FALSE]
       /\ UNCHANGED <<storeVars, credVars, response, used>>

\* AppController.open_editor, from the display's edit button
open_editor ==
    /\ DisplayShown
    /\ editor_visible' = TRUE
    /\ editor_open' = IF ~editor_visible THEN TRUE ELSE editor_open
    /\ UNCHANGED <<storeVars, credVars, displayVars, editor_items, display_open, quit_called,
                   event, response, used, display_visible, _topmost>>

\* a controller that quits as soon as one of the two windows is closed
ShouldQuit_EitherClosed(d_open, e_open) == ~d_open \/ ~e_open

\* _maybe_quit: if not self.display_open and not self.editor_open
ShouldQuit(d_open, e_open) == ~d_open /\ ~e_open

\* DisplayWindow.closeEvent (hide) -> _on_display_closed -> _maybe_quit
DisplayClose ==
    /\ DisplayShown
    /\ display_visible' = FALSE
    /\ display_open' = FALSE
    /\ quit_called' = ShouldQuit(FALSE, editor_open)
    /\ UNCHANGED <<storeVars, credVars, displayVars, editor_items, editor_open, event, response,
                   used, editor_visible, _topmost>>

\* EditorWindow.closeEvent (hide) -> _on_editor_closed -> _maybe_quit
EditorClose ==
    /\ EditorShown
    /\ editor_visible' = FALSE
    /\ editor_open' = FALSE
    /\ quit_called' = ShouldQuit(display_open, FALSE)
    /\ UNCHANGED <<storeVars, credVars, displayVars, editor_items, display_open, event, response,
                   used, display_visible, _topmost>>

\* DisplayWindow._toggle_topmost -> _apply_topmost: the window flag is set
\* and the window is shown again
_toggle_topmost ==
    /\ DisplayShown
    /\ _topmost' = ~_topmost
    /\ display_visible' = TRUE
    /\ UNCHANGED <<storeVars, credVars, displayVars, editor_items, ctlVars, event, response,
                   used, editor_visible>>

\* ------------------------------------------------------------------------
\* Specifications
\* ------------------------------------------------------------------------
\* no answer of the remote model yet
NoContent == [k |-> "none", raw |-> <<>>]

\* DisplayWindow(tasks=initial): a copy of the list, then _refresh_all
DisplayConstructed(initial) ==
    /\ tasks = initial
    /\ list_rows = _sorted_indices_for_display(initial)
    /\ lbl_current = _refresh_collapsed_row(initial).lbl
    /\ btn_complete = _refresh_collapsed_row(initial).btn

\* the windows as AppController.__init__ constructs them over initial_tasks,
\* the display shown and the editor hidden
Constructed(initial) ==
    /\ DisplayConstructed(initial)
    /\ editor_items = _load_tasks(initial)
    /\ display_open = TRUE
    /\ editor_open = FALSE
    /\ quit_called = FALSE
    /\ display_visible = TRUE
    /\ editor_visible = FALSE
    /\ _topmost = TRUE
    /\ response = NoContent

\* the first launch: nothing stored, no flat file
AppInit ==
    /\ rows = {}
    /\ files = [loc \in LocSet |-> [d \in Days |-> FileMissing]]
    /\ call = NoCall
    /\ Constructed(InitialTasks(<<>>))
    /\ used = [edits |-> 0, mutations |-> 0]
    /\ event = [op |-> "launch", idx |-> NoIndex, list |-> <<>>, raised |-> FALSE]
    /\ api_keys = NoKey
    /\ key_file = KeyFileMissing
    /\ cred = NoCred

\* the store alone: its two calls, and the flat files changing under it
StoreSave == \E d \in Days : \E L \in SaveLists(d) : save_tasks_for_date(d, L)
StoreLoad == \E d \in Days : load_tasks_for_date(d)
StoreLegacy ==
    \E loc \in LocSet, d \in LegacyDays, c \in LegacyContents : LegacyFileChange(loc, d, c)

StoreNext == StoreSave \/ StoreLoad \/ StoreLegacy

SpecStore == AppInit /\ [][StoreNext]_vars

\* the credential slot alone: its two calls, and apikey.json changing under it
KeyTexts == {<<"k">>, <<" ", "j", " ">>, <<" ">>}
CredSave == \E api_key \in KeyTexts : save_api_key(api_key)
CredLoad == load_api_key
CredFile == \E content \in KeyFileContents : KeyFileChange(content)

CredNext == CredSave \/ CredLoad \/ CredFile

SpecCred == AppInit /\ [][CredNext]_vars

\* the display window alone, constructed over any task list
DisplayTexts == {<<"a">>, <<"b">>}
DisplayTasks == {TaskRecord(x, d, p) : x \in DisplayTexts, d \in BOOLEAN, p \in BOOLEAN}

DisplayInit ==
    /\ rows = {}
    /\ files = [loc \in LocSet |-> [d \in Days |-> FileMissing]]
    /\ call = NoCall
    /\ editor_items = <<>>
    /\ display_open = TRUE
    /\ editor_open = FALSE
    /\ quit_called = FALSE
    /\ display_visible = TRUE
    /\ editor_visible = FALSE
    /\ _topmost = TRUE
    /\ response = NoContent
    /\ used = [edits |-> 0, mutations |-> 0]
    /\ api_keys = NoKey
    /\ key_file = KeyFileMissing
    /\ cred = NoCred
    /\ \E L \in SeqsUpTo(DisplayTasks, MaxTasks) :
          /\ DisplayConstructed(L)
          /\ event = [op |-> "init", idx |-> NoIndex, list |-> L, raised |-> FALSE]

DisplayComplete == _complete_current_task /\ UNCHANGED used
DisplayDone ==
    \E idx \in 0..(Len(tasks) - 1) : DisplayToggleDone(idx) /\ UNCHANGED used
DisplayPin ==
    \E idx \in 0..(Len(tasks) - 1) : DisplayTogglePin(idx) /\ UNCHANGED used
DisplayDrag ==
    \E from, to \in 1..Len(list_rows) : _sync_order_from_list(from, to) /\ UNCHANGED used

DisplayNext == DisplayComplete \/ DisplayDone \/ DisplayPin \/ DisplayDrag

SpecDisplay == DisplayInit /\ [][DisplayNext]_vars

\* the complete button alone, pressed again and again on the display as the
\* launch constructs it over any list of today's file; used.mutations counts
\* the presses, one more than the list can take
CompleteInit ==
    /\ rows = {}
    /\ files = [loc \in LocSet |-> [d \in Days |-> FileMissing]]
    /\ call = NoCall
    /\ used = [edits |-> 0, mutations |-> 0]
    /\ api_keys = NoKey
    /\ key_file = KeyFileMissing
    /\ cred = NoCred
    /\ \E L \in SeqsUpTo(DisplayTasks, MaxTasks) :
          /\ Constructed(InitialTasks(L))
          /\ event = [op |-> "launch", idx |-> NoIndex, list |-> L, raised |-> FALSE]

CompleteAgain ==
    /\ used.mutations <= MaxTasks
    /\ _complete_current_task
    /\ used' = [used EXCEPT !.mutations = @ + 1]

SpecComplete == CompleteInit /\ [][CompleteAgain]_vars

\* the application: both windows, the controller, the next launch, and a
\* load of today's list from the store
EditTexts == {<<" ", "b">>}

Edited ==
    /\ used.edits < MaxEdits
    /\ used' = [used EXCEPT !.edits = @ + 1]

Mutated ==
    /\ used.mutations < MaxMutations
    /\ used' = [used EXCEPT !.mutations = @ + 1]

AppComplete == _complete_current_task /\ Mutated
AppDone == \E idx \in 0..(Len(tasks) - 1) : DisplayToggleDone(idx) /\ Mutated
AppPin == \E idx \in 0..(Len(tasks) - 1) : DisplayTogglePin(idx) /\ Mutated
AppDrag == \E from, to \in 1..Len(list_rows) : _sync_order_from_list(from, to) /\ Mutated

EditorAdd == _add_task /\ Edited
EditorEdit ==
    \E row \in 1..Len(editor_items), x \in EditTexts : EditItemText(row, x) /\ Edited
EditorDelete == \E row \in 1..Len(editor_items) : _delete_selected(row) /\ Edited
EditorDone == \E row \in 1..Len(editor_items) : EditorToggleDone(row) /\ Edited
EditorPin == \E row \in 1..Len(editor_items) : EditorTogglePin(row) /\ Edited
EditorPublish == _publish
LoadToday == load_tasks_for_date(Today)

AppNext ==
    \/ AppComplete \/ AppDone \/ AppPin \/ AppDrag
    \/ EditorAdd \/ EditorEdit \/ EditorDelete \/ EditorDone \/ EditorPin
    \/ EditorPublish
    \/ open_editor \/ DisplayClose \/ EditorClose \/ _toggle_topmost \/ Launch
    \/ LoadToday

SpecApp == AppInit /\ [][AppNext]_vars

\* the editor's summarize button, over the answers of the remote model
\* the items of the arrays of every length: two well-formed ones and one
\* whose pinned is the number 1
AnswerItems ==
    {JDict(JStr(<<"a">>), JBool(FALSE), JBool(TRUE), FALSE),
     JDict(JStr(<<" ", "b">>), JBool(TRUE), JBool(FALSE), FALSE),
     JDict(JStr(<<"a">>), JBool(FALSE), JInt(1), FALSE)}

\* more items, alone and behind a well-formed one: a blank text, a fourth
\* key, a missing key, a text that is a number, a null done, and a number
OtherItems ==
    {JDict(JStr(<<" ">>), JBool(FALSE), JBool(FALSE), FALSE),
     JDict(JStr(<<"a">>), JBool(FALSE), JBool(TRUE), TRUE),
     JDict(JStr(<<"a">>), JBool(FALSE), JAbsent, FALSE),
     JDict(JInt(5), JBool(FALSE), JBool(TRUE), FALSE),
     JDict(JStr(<<"a">>), JNull, JBool(FALSE), FALSE),
     JInt(7)}

AnswerArrays ==
    SeqsUpTo(AnswerItems, MaxItems)
    \cup {<<x>> : x \in OtherItems}
    \cup {<<JDict(JStr(<<" ", "b">>), JBool(TRUE), JBool(FALSE), FALSE), x>> :
            x \in OtherItems}

\* the items of the arrays that stand in prose, and the prose before and
\* after them: none, words, and words with a bracketed note
ProseItems ==
    {JDict(JStr(<<"a">>), JBool(FALSE), JBool(TRUE), FALSE),
     JDict(JStr(<<" ", "b">>), JBool(TRUE), JBool(FALSE), FALSE)}
ProseBefore == {<<>>, <<Word>>, <<Word, LBracket, JInt(1), RBracket, Word>>}
ProseAfter == {<<>>, <<Word>>}

Answers ==
    {TransportFault, RespNoJson, Answer(<<>>), RespScalar(FALSE), RespScalar(TRUE),
     Answer(<<LBrace("tasks"), JInt(7), RBrace>>)}
    \cup {RespArray(items, FALSE) : items \in AnswerArrays}
    \cup {Answer(before \o <<LBracket>> \o items \o <<RBracket>> \o after) :
            items \in SeqsUpTo(ProseItems, MaxItems),
            before \in ProseBefore, after \in ProseAfter}
    \cup {RespObject(item, prose) :
            item \in (AnswerItems \cup OtherItems) \ {JInt(7)}, prose \in BOOLEAN}
    \cup {RespWrapper(key, items, prose) :
            key \in {"tasks", "list", "result"}, items \in SeqsUpTo(ProseItems, 1),
            prose \in BOOLEAN}

\* the texts of the input box, and what the key dialog returns
RawInputs == {<<" ">>, <<"p">>}
KeyInputs == {NoKey, SomeKey(<<" ">>), SomeKey(<<" ", "k">>)}

Summarize == \E raw_input \in RawInputs, answer \in Answers : _on_ai_summarize(raw_input, answer)
SetApiKey == \E input \in KeyInputs : _on_set_api_key(input)

AdapterNext == open_editor \/ SetApiKey \/ Summarize \/ EditorClose

SpecAdapter == AppInit /\ [][AdapterNext]_vars

\* ------------------------------------------------------------------------
\* Claims about the store
\* ------------------------------------------------------------------------
\* C1: save(day, L) followed by load(day) returns a list equal to L in
\* content and order, for every L (the empty list included) and every state
\* of the flat files.  (A load that ends in an exception returns no list;
\* that case is C5's.)
C1_RoundTrip ==
    [][(call.op = "save" /\ call'.op = "load" /\ call'.day = call.day /\ ~call'.raised)
         => call'.val = call.arg]_vars

\* C4: when the table has no row for the day and a flat file holds a JSON
\* array, a load and the next load of that day return the same list, whatever
\* happens to the flat files in between.  (A load that ends in an exception
\* returns no list; that case is C5's.)
C4_MigrationIdempotent ==
    [][(call.op = "load" /\ ~call.raised /\ call.parsed
          /\ call'.op = "load" /\ call'.seq # call.seq /\ call'.day = call.day
          /\ ~call'.raised)
         => call'.val = call.val]_vars

\* C5: load never raises, whatever the two flat files hold.
C5_LoadNeverFails == call.op = "load" => ~call.raised

\* the positions of each day are 0..n-1, each held by one row
Contiguous(rs) ==
    \A d \in Days :
        LET ofDay == {r \in rs : r.task_date = d}
        IN /\ {r.position : r \in ofDay} = 0..(Cardinality(ofDay) - 1)
           /\ \A r1, r2 \in ofDay : r1.position = r2.position => r1 = r2

\* C6: save(day, L) leaves for the day exactly the elements of L at positions
\* 0..len(L)-1 and leaves the rows of every other day alone; the positions of
\* each day always form 0..n-1 without duplicates.
C6_SaveReplaces ==
    /\ [](Contiguous(rows))
    /\ [][(call'.seq # call.seq /\ call'.op = "save")
            => /\ RowsToTasks(SelectRows(rows', call'.day)) = call'.arg
               /\ Cardinality({r \in rows' : r.task_date = call'.day}) = Len(call'.arg)
               /\ \A d \in Days \ {call'.day} :
                      {r \in rows' : r.task_date = d} = {r \in rows : r.task_date = d}]_vars

\* a save of a shorter list over a longer entry, while the other day has rows
C6_Witness ==
    /\ call.op = "save"
    /\ call.deleted > Len(call.arg)
    /\ Len(call.arg) > 0
    /\ \E r \in rows : r.task_date # call.day

\* ------------------------------------------------------------------------
\* Claims about the application
\* ------------------------------------------------------------------------
\* the handlers of the display that change its task list
MutationOps == {"complete", "toggle_done", "toggle_pin", "reorder"}

\* C2: after a mutation of the display's list (complete, toggle done, toggle
\* pinned, reorder), the list the next launch reads back for today equals the
\* display's list as the mutation left it.
C2_DisplayMutationPersisted ==
    [][(event.op \in MutationOps /\ event'.op = "launch")
         => (~event'.raised /\ event'.list = tasks)]_vars

\* C3: after every publish of a non-empty list L, load(today) returns L.
C3_PublishWritesThrough ==
    [][(event.op = "publish" /\ call'.seq # call.seq /\ call'.op = "load"
          /\ call'.day = Today)
         => (~call'.raised /\ call'.val = event.list)]_vars

\* ------------------------------------------------------------------------
\* Claims about the display's rules
\* ------------------------------------------------------------------------
\* the indices of the tasks that are pinned and not done, and of those not done
PinnedOpen(ts) == {i \in 0..(Len(ts) - 1) : ts[i + 1].pinned /\ ~ts[i + 1].done}
Open(ts) == {i \in 0..(Len(ts) - 1) : ~ts[i + 1].done}

\* C7: when some task is pinned and not done, the current task is the one of
\* them with the smallest index, and the collapsed row shows it.
C7_PinnedOpenFirst ==
    PinnedOpen(tasks) # {}
        => /\ _current_task_index(tasks) \in PinnedOpen(tasks)
           /\ \A j \in PinnedOpen(tasks) : _current_task_index(tasks) <= j
           /\ lbl_current = [pin |-> TRUE, text |-> tasks[_current_task_index(tasks) + 1].text]

\* the current task is at index 2, behind an unpinned open task and a pinned
\* done one, after a handler of the display ran
C7_Witness ==
    /\ event.op \in MutationOps
    /\ Len(tasks) = 3
    /\ ~tasks[1].pinned /\ ~tasks[1].done
    /\ tasks[2].pinned /\ tasks[2].done
    /\ tasks[3].pinned /\ ~tasks[3].done
    /\ _current_task_index(tasks) = 2
    /\ lbl_current.text = tasks[3].text

\* C8: when no task is pinned and not done, the current task is the task not
\* done with the smallest index, and none when every task is done (the empty
\* list included); the complete button is enabled exactly when there is one.
C8_FirstOpenOrNone ==
    PinnedOpen(tasks) = {}
        => /\ Open(tasks) # {}
                => /\ _current_task_index(tasks) \in Open(tasks)
                   /\ \A j \in Open(tasks) : _current_task_index(tasks) <= j
                   /\ btn_complete
           /\ Open(tasks) = {}
                => /\ _current_task_index(tasks) = NoIndex
                   /\ ~btn_complete

\* the current task is the open one at index 1 behind a pinned done one,
\* after a handler of the display ran
C8_Witness ==
    /\ event.op \in MutationOps
    /\ Len(tasks) >= 2
    /\ tasks[1].pinned /\ tasks[1].done
    /\ ~tasks[2].pinned /\ ~tasks[2].done
    /\ PinnedOpen(tasks) = {}
    /\ _current_task_index(tasks) = 1
    /\ btn_complete

\* C9: the rows of the display are the indices of the pinned tasks in
\* ascending order followed by those of the other tasks in ascending order, a
\* permutation of 0..n-1; building them leaves the task list as the handler
\* set it.
C9_StablePartition ==
    /\ Len(list_rows) = Len(tasks)
    /\ {list_rows[r] : r \in 1..Len(list_rows)} = 0..(Len(tasks) - 1)
    /\ \A r1, r2 \in 1..Len(list_rows) :
          r1 < r2 =>
            /\ tasks[list_rows[r2] + 1].pinned => tasks[list_rows[r1] + 1].pinned
            /\ tasks[list_rows[r1] + 1].pinned = tasks[list_rows[r2] + 1].pinned
                  => list_rows[r1] < list_rows[r2]
    /\ tasks = event.list

\* a mixed list whose pinned tasks are not in front, after a handler ran
C9_Witness ==
    /\ event.op \in MutationOps
    /\ Len(tasks) = 3
    /\ ~tasks[1].pinned /\ tasks[2].pinned /\ tasks[3].pinned
    /\ list_rows = <<1, 2, 0>>

\* ------------------------------------------------------------------------
\* Claims about the adapter
\* ------------------------------------------------------------------------
\* the entries of an array that carry pinned = true
PinnedEntries(items) ==
    {i \in 1..Len(items) : IsDict(items[i]) /\ items[i].pinned = JBool(TRUE)}

\* the array the adapter extracts from the last answer, when it extracts one
HasExtracted ==
    /\ response.k = "content"
    /\ ~ExtractAndLoad(response.raw).raised
    /\ ~_normalize_tasks_data(ExtractAndLoad(response.raw).data).raised
Extracted == _normalize_tasks_data(ExtractAndLoad(response.raw).data).val

\* C10: the adapter returns no list with more than one pinned task; an
\* extracted array with two or more pinned entries is rejected and none of
\* its entries is returned.
C10_AtMostOnePinned ==
    event.op = "summarize"
        => /\ Cardinality({i \in 1..Len(event.list) : event.list[i].pinned}) <= 1
           /\ (HasExtracted /\ Cardinality(PinnedEntries(Extracted)) >= 2)
                => (event.raised /\ event.list = <<>>)

\* the answer is an array of two well-formed tasks, both pinned, and it is
\* rejected
C10_Witness ==
    /\ event.op = "summarize"
    /\ event.raised
    /\ response = RespArray(<<JDict(JStr(<<"a">>), JBool(FALSE), JBool(TRUE), FALSE),
                             JDict(JStr(<<"a">>), JBool(FALSE), JBool(TRUE), FALSE)>>,
                           FALSE)
\* an element the adapter's validation accepts: an object with exactly the
\* keys text, done and pinned, a string text and boolean done and pinned
WellFormed(item) ==
    /\ IsDict(item)
    /\ ~item.extra
    /\ item.text.t = "str"
    /\ item.done.t = "bool"
    /\ item.pinned.t = "bool"

\* the task an accepted element becomes, its text stripped
AsTask(item) == TaskRecord(Strip(item.text.s), item.done.n = 1, item.pinned.n = 1)

\* C11 as stated: if any element of the extracted array is not well-formed
\* the call fails and returns no task; otherwise every element is returned,
\* in order.
C11_AllElementsReturned ==
    (event.op = "summarize" /\ HasExtracted)
        => IF \E i \in 1..Len(Extracted) : ~WellFormed(Extracted[i])
           THEN event.raised /\ event.list = <<>>
           ELSE /\ ~event.raised
                /\ event.list = [i \in 1..Len(Extracted) |-> AsTask(Extracted[i])]

\* C11 amended: if any element of the extracted array is not well-formed the
\* call fails and returns no task; otherwise, when at most one element is
\* pinned, every element is returned, in order.
C11_AllOrNothing ==
    (event.op = "summarize" /\ HasExtracted)
        => IF \E i \in 1..Len(Extracted) : ~WellFormed(Extracted[i])
           THEN event.raised /\ event.list = <<>>
           ELSE Cardinality(PinnedEntries(Extracted)) <= 1
                   => /\ ~event.raised
                      /\ event.list = [i \in 1..Len(Extracted) |-> AsTask(Extracted[i])]

\* an array whose first element is well-formed and whose second is not is
\* rejected as a whole
C11_Witness ==
    /\ event.op = "summarize"
    /\ HasExtracted
    /\ Len(Extracted) = 2
    /\ WellFormed(Extracted[1])
    /\ ~WellFormed(Extracted[2])
    /\ event.raised
    /\ event.list = <<>>
\* the handlers that take task records into a task list
IngestionOps == {"summarize", "publish"}

\* C12: every task the adapter returns, and every task the editor collects
\* for publish, has a text that is stripped and not empty.
C12_TextNonEmpty ==
    (event.op \in IngestionOps /\ ~event.raised)
        => \A i \in 1..Len(event.list) :
              /\ event.list[i].text # <<>>
              /\ Strip(event.list[i].text) = event.list[i].text
\* C13: a summarization attempt that fails (the remote call, the
\* extraction or the validation) leaves the rows of the editor exactly as
\* they were, and nothing is published or persisted: the display's list, the
\* flat files and the table are as before.
C13_FailureLeavesEditor ==
    [][(event'.op = "summarize" /\ event'.raised
          /\ (event' # event \/ response' # response))
         => /\ editor_items' = editor_items
            /\ displayVars' = displayVars
            /\ files' = files
            /\ rows' = rows]_vars

\* a failed attempt after a successful one that loaded two rows, for each of
\* the three kinds of failure
C13_Witness ==
    /\ event.op = "summarize"
    /\ event.raised
    /\ Len(editor_items) = 2
    /\ \/ response = TransportFault
       \/ response = RespNoJson
       \/ HasExtracted
\* a valid task array stands at raw[i..j]: "[", well-formed elements of which
\* at most one is pinned, "]"
ValidArrayAt(raw, i, j) ==
    /\ i < j
    /\ raw[i].t = "["
    /\ raw[j].t = "]"
    /\ \A k \in (i + 1)..(j - 1) : WellFormed(raw[k])
    /\ Cardinality(PinnedEntries(SubSeq(raw, i + 1, j - 1))) <= 1

\* the tasks of the array at raw[i..j]
TasksAt(raw, i, j) == [k \in 1..(j - i - 1) |-> AsTask(raw[i + k])]

\* C14 as stated: when the answer is not itself JSON, a valid task array
\* with prose around it is extracted and accepted as that array.
C14_EmbeddedArrayAccepted ==
    (event.op = "summarize" /\ response.k = "content" /\ JsonLoads(response.raw).raised)
        => \A i, j \in 1..Len(response.raw) :
              (ValidArrayAt(response.raw, i, j) /\ j - i + 1 < Len(response.raw))
                  => /\ ~event.raised
                     /\ event.list = TasksAt(response.raw, i, j)

\* C14 amended: when the answer is not itself JSON, a valid task array with
\* prose around it is extracted and accepted as that array when its "[" is
\* the first "[" of the answer and its "]" the last "]".
C14_ExtractsBetweenBrackets ==
    (event.op = "summarize" /\ response.k = "content" /\ JsonLoads(response.raw).raised)
        => \A i, j \in 1..Len(response.raw) :
              (/\ ValidArrayAt(response.raw, i, j)
               /\ j - i + 1 < Len(response.raw)
               /\ Find(response.raw, "[") = i
               /\ RFind(response.raw, "]") = j)
                  => /\ ~event.raised
                     /\ event.list = TasksAt(response.raw, i, j)

\* an array of two tasks between two words of prose is accepted
C14_Witness ==
    /\ event.op = "summarize"
    /\ ~event.raised
    /\ response.k = "content"
    /\ Len(response.raw) = 6
    /\ response.raw[1] = Word
    /\ response.raw[6] = Word
    /\ ValidArrayAt(response.raw, 2, 5)
    /\ event.list = TasksAt(response.raw, 2, 5)
\* what the validation makes of a list: its tasks when every element is
\* well-formed and at most one is pinned, a failure otherwise
Validated(items) ==
    IF /\ \A i \in 1..Len(items) : WellFormed(items[i])
       /\ Cardinality(PinnedEntries(items)) <= 1
    THEN [raised |-> FALSE, list |-> [i \in 1..Len(items) |-> AsTask(items[i])]]
    ELSE [raised |-> TRUE, list |-> <<>>]

\* the outcome of the last attempt
Outcome == [raised |-> event.raised, list |-> event.list]

\* the value the adapter parsed from the last answer
Parsed == ExtractAndLoad(response.raw).data

\* C15: a parsed object with exactly the keys text, done and pinned is
\* validated as the array of that one object; an object holding a list under
\* tasks, items, data or list is validated as that list; a scalar and every
\* other object are a validation failure.
C15_Normalization ==
    (event.op = "summarize" /\ response.k = "content"
       /\ ~ExtractAndLoad(response.raw).raised)
        => /\ (Parsed.k = "object" /\ HasTaskKeys(Parsed.v[1]))
                => Outcome = Validated(Parsed.v)
           /\ (Parsed.k = "object" /\ ~HasTaskKeys(Parsed.v[1])) => event.raised
           /\ (Parsed.k = "wrapper" /\ Parsed.list
                 /\ Parsed.key \in {"tasks", "items", "data", "list"})
                => Outcome = Validated(Parsed.v)
           /\ (Parsed.k = "wrapper" /\ ~Parsed.list) => event.raised
           /\ (Parsed.k = "wrapper" /\ Parsed.key \notin {"tasks", "items", "data", "list"})
                => event.raised
           /\ Parsed.k = "scalar" => event.raised

\* an object that holds one task under "list" is unwrapped and accepted
C15_Witness ==
    /\ event.op = "summarize"
    /\ response.k = "content"
    /\ ~ExtractAndLoad(response.raw).raised
    /\ Parsed.k = "wrapper"
    /\ Parsed.key = "list"
    /\ Len(Parsed.v) = 1
    /\ ~event.raised
    /\ event.list = <<AsTask(Parsed.v[1])>>
\* ------------------------------------------------------------------------
\* Claims about the credential slot
\* ------------------------------------------------------------------------
\* C16: with no credential row and no legacy key file, load_api_key returns
\* None without an exception; a load_api_key that follows save_api_key(v),
\* v not blank, returns v stripped, whatever the row held before the save and
\* whatever apikey.json holds.  (The slot of the model is the one row the
\* CHECK (id = 1) of the table allows.)
C16_CredentialSlot ==
    /\ (cred.op = "load" /\ cred.empty) => (~cred.raised /\ cred.val = NoKey)
    /\ (cred.op = "load" /\ cred.prev_op = "save" /\ Strip(cred.prev_arg) # <<>>)
          => (~cred.raised /\ cred.val = SomeKey(Strip(cred.prev_arg)))

\* a key with blanks around it was saved over another key, the legacy file
\* holds a third one, and the load returns the saved key stripped
C16_Witness ==
    /\ cred.op = "load"
    /\ cred.prev_op = "save"
    /\ cred.prev_arg = <<" ", "j", " ">>
    /\ cred.val = SomeKey(<<"j">>)
    /\ key_file = KeyFileObject(JStr(<<"f", " ">>))
\* ------------------------------------------------------------------------
\* Claims about the two windows
\* ------------------------------------------------------------------------
\* C17: a publish makes the display's list equal to the list collected from
\* the rows of the editor, whatever the display held before, and leaves the
\* rows alone; an edit in the editor leaves the display's list and widgets
\* alone; a toggle, completion or reorder in the display leaves the rows of
\* the editor alone.  (A launch constructs both windows anew.)
C17_IndependentCopies ==
    [][~quit_called
         => /\ (event'.op = "publish" /\ (event' # event \/ tasks' # tasks))
                  => /\ tasks' = [i \in 1..Len(editor_items) |->
                                    TaskRecord(Strip(editor_items[i].text),
                                               editor_items[i].done,
                                               editor_items[i].pinned)]
                     /\ editor_items' = editor_items
            /\ editor_items' # editor_items => displayVars' = displayVars
            /\ tasks' # tasks => editor_items' = editor_items]_vars

\* a publish after a mutation in the display and an edit in the editor
C17_Witness ==
    /\ event.op = "publish"
    /\ used.mutations = 1
    /\ used.edits = 1
    /\ tasks = event.list
    /\ tasks # <<PlaceholderTask>>
\* list "after" is list "before" with the field done of entry i flipped and
\* nothing else changed; likewise for pinned
OnlyDoneFlipped(before, after, i) ==
    /\ Len(after) = Len(before)
    /\ after[i].done = ~before[i].done
    /\ after[i].pinned = before[i].pinned
    /\ after[i].text = before[i].text
    /\ \A j \in 1..Len(before) : j # i => after[j] = before[j]

OnlyPinnedFlipped(before, after, i) ==
    /\ Len(after) = Len(before)
    /\ after[i].pinned = ~before[i].pinned
    /\ after[i].done = before[i].done
    /\ after[i].text = before[i].text
    /\ \A j \in 1..Len(before) : j # i => after[j] = before[j]

\* C18: a toggle of done or pinned on entry i flips that field of entry i and
\* leaves its other field, its text, every other entry, and the order and
\* length of the list as they were: in the display, for the entry the handler
\* was called on; in the editor, where the handlers that keep the number of
\* rows and their texts are the two toggles, for one row.
C18_SingleFieldFlip ==
    [][~quit_called
         => /\ (event'.op = "toggle_done" /\ tasks' # tasks)
                  => OnlyDoneFlipped(tasks, tasks', event'.idx + 1)
            /\ (event'.op = "toggle_pin" /\ tasks' # tasks)
                  => OnlyPinnedFlipped(tasks, tasks', event'.idx + 1)
            /\ (/\ editor_items' # editor_items
                /\ Len(editor_items') = Len(editor_items)
                /\ \A r \in 1..Len(editor_items) :
                      editor_items'[r].text = editor_items[r].text)
                  => \E r \in 1..Len(editor_items) :
                        \/ OnlyDoneFlipped(editor_items, editor_items', r)
                        \/ OnlyPinnedFlipped(editor_items, editor_items', r)]_vars

\* a second task of the display has just been pinned and the first one is
\* still pinned
C18_Witness ==
    /\ event.op = "toggle_pin"
    /\ event.idx = 1
    /\ Len(tasks) >= 2
    /\ tasks[1].pinned
    /\ tasks[2].pinned
\* ------------------------------------------------------------------------
\* Claims about the migration
\* ------------------------------------------------------------------------
\* the tasks of the first of the two flat files of the day, current location
\* first, that holds a JSON array; no task when neither does
FirstArray(fs, day) ==
    IF fs["current"][day].k = "array" THEN ReadItems(fs["current"][day].v)
    ELSE IF fs["legacy"][day].k = "array" THEN ReadItems(fs["legacy"][day].v)
    ELSE <<>>

\* C19: when the table has no row for the day, load returns the tasks of the
\* first flat file, current location first, that parses as a JSON array, the
\* empty array included; the legacy location counts only when the file of
\* the current one is missing or does not parse.  (A load that ends in an
\* exception returns no list; that case is C5's.)
C19_FirstParsedFile ==
    [][(/\ call'.seq # call.seq
        /\ call'.op = "load"
        /\ ~call'.raised
        /\ \A r \in rows : r.task_date # call'.day)
         => call'.val = FirstArray(files, call'.day)]_vars
\* ------------------------------------------------------------------------
\* Claims about the drag reorder
\* ------------------------------------------------------------------------
\* how often the record x occurs in the list ts
Count(ts, x) == Cardinality({i \in 1..Len(ts) : ts[i] = x})

\* C20: after a drag of a row of the display, the task list has the length
\* and the multiset of records it had before, and holds the tasks in the
\* order of the rows as the drag left them.
C20_ReorderIsPermutation ==
    [][(event'.op = "reorder" /\ (event' # event \/ tasks' # tasks))
         => /\ Len(tasks') = Len(tasks)
            /\ \A i \in 1..Len(tasks) : Count(tasks', tasks[i]) = Count(tasks, tasks[i])
            /\ \E from, to \in 1..Len(list_rows) :
                  /\ from # to
                  /\ tasks' = [r \in 1..Len(list_rows) |->
                                  tasks[MoveRow(list_rows, from, to)[r] + 1]]]_vars

\* after a drag, a list of three tasks, two of them equal records, holds an
\* unpinned task before a pinned one
C20_Witness ==
    /\ event.op = "reorder"
    /\ Len(tasks) = 3
    /\ ~tasks[1].pinned
    /\ tasks[2].pinned
    /\ tasks[3] = tasks[2]
\* ------------------------------------------------------------------------
\* Claims about the controller
\* ------------------------------------------------------------------------
\* a window is closed in this step
CloseEvent ==
    \/ display_visible /\ ~display_visible'
    \/ editor_visible /\ ~editor_visible'

\* C21: the flags display_open and editor_open of the controller equal the
\* visibility of the two windows; a close event requests the quit exactly
\* when both windows are closed after it, so closing one window while the
\* other is open does not quit; no other event requests the quit.
C21_QuitCoordination ==
    /\ [](display_open = display_visible /\ editor_open = editor_visible)
    /\ [][/\ CloseEvent => (quit_called' = (~display_visible' /\ ~editor_visible'))
          /\ (~quit_called /\ quit_called') => CloseEvent]_vars

\* after a publish the display has been closed while the editor is open, and
\* the application runs on
C21_Witness ==
    /\ event.op = "publish"
    /\ ~display_visible
    /\ editor_visible
    /\ ~quit_called
\* ------------------------------------------------------------------------
\* Claims about the complete button
\* ------------------------------------------------------------------------
\* C22: a press of the complete button sets done on the current task, which
\* was not done, and changes nothing else of the list; a press when there is
\* no current task leaves the list as it is.  From a list with k tasks not
\* done (the rows of the editor still hold it), after n presses and nothing
\* else, k - n tasks are not done while n < k, and from the k-th press on
\* there is no current task.
C22_CompleteProgress ==
    /\ [](LET k == Cardinality(Open(editor_items))
              n == used.mutations
          IN /\ Cardinality(Open(tasks)) = IF n < k THEN k - n ELSE 0
             /\ (_current_task_index(tasks) = NoIndex) = (n >= k)
             /\ btn_complete = (n < k))
    /\ [][LET idx == _current_task_index(tasks)
          IN IF idx = NoIndex
             THEN tasks' = tasks
             ELSE /\ ~tasks[idx + 1].done
                  /\ Len(tasks') = Len(tasks)
                  /\ tasks'[idx + 1] = [tasks[idx + 1] EXCEPT !.done = TRUE]
                  /\ \A j \in 1..Len(tasks) : j # idx + 1 => tasks'[j] = tasks[j]]_vars

\* a list of three tasks, none of them done at the launch, after three
\* presses and one more: every task is done and nothing is current
C22_Witness ==
    /\ event.op = "complete"
    /\ Len(tasks) = 3
    /\ Cardinality(Open(editor_items)) = 3
    /\ used.mutations = 4
    /\ Open(tasks) = {}
    /\ _current_task_index(tasks) = NoIndex
====
